---- MODULE Spec2Model ----
(***************************************************************************)
(* colorls-rs (src/main.rs): attribute resolution and the grid layout.     *)
(*                                                                         *)
(* A file name is a sequence of chars (one-character strings); "^" stands  *)
(* for a combining mark (a char of the Extend class, which joins the       *)
(* grapheme of the char before it).  A rendered cell is a sequence of      *)
(* tokens: chars, one icon glyph, and colour escapes.                      *)
(***************************************************************************)
EXTENDS Integers, Sequences, FiniteSets, TLC

VARIABLES
    config,     \* Config: the four tables, colors, max_width, printer
    formatter,  \* Action.formatter: "planning" | "naive"
    directory,  \* Action.directory, a sequence of chars
    dirs,       \* the file system: the names that are directories
    arrival,    \* fs::read_dir's result: the names, in arrival order
    pc,         \* position in run / Formatter::format / get_attr
    ls,         \* run's ls: Vec<Entry>
    min_rows,   \* PlanningFormatter::format's locals
    max_rows,
    row_cap,    \* the loop variable of range_step
    chosen,     \* the row_cap handed to format_as_rows (-1: none yet)
    output,     \* the Output run prints
    panic,      \* "none", or the panic that aborted the process
    probe,      \* the path a single get_attr call is applied to
    attr        \* that call's result

vars == <<config, formatter, directory, dirs, arrival, pc, ls, min_rows,
          max_rows, row_cap, chosen, output, panic, probe, attr>>

----------------------------------------------------------------------------
(* Bounds of the model *)

MaxEntries == 3
MaxTermWidth == 16

(* src/main.rs:436 *)
MIN_FORMAT_ENTRY_LENGTH == 5

----------------------------------------------------------------------------
(* Generic helpers *)

Range(s) == {s[i] : i \in 1..Len(s)}

Spaces(n) == [i \in 1..n |-> " "]

RECURSIVE SumSeq(_)
SumSeq(s) == IF Len(s) = 0 THEN 0 ELSE s[1] + SumSeq(Tail(s))

RECURSIVE Flatten(_)
Flatten(rows) == IF Len(rows) = 0 THEN <<>> ELSE rows[1] \o Flatten(Tail(rows))

Ok(v) == [panic |-> "none", val |-> v]
Panicked(kind) == [panic |-> kind, val |-> <<>>]

(* Injective sequences over S of length at most n: a directory holds a name once *)
InjSeqs(S, n) ==
    UNION {{s \in [1..k -> S] : \A i, j \in 1..k : i # j => s[i] # s[j]} : k \in 0..n}

----------------------------------------------------------------------------
(* Strings *)

FILE == <<"f", "i", "l", "e">>
FOLDER == <<"f", "o", "l", "d", "e", "r">>

IsExtend(c) == c = "^"

(* Byte order of the chars used ('.' 0x2E, '/' 0x2F, letters, U+0310 last) *)
CharRank(c) ==
    CASE c = "." -> 1
      [] c = "/" -> 2
      [] c = "a" -> 3
      [] c = "b" -> 4
      [] c = "d" -> 5
      [] c = "t" -> 6
      [] c = "^" -> 7
      [] OTHER -> 8

(* strlen: s.graphemes(true).count(); an Extend char joins the grapheme before it *)
strlen(s) == Cardinality({i \in 1..Len(s) : i = 1 \/ ~IsExtend(s[i])})

RECURSIVE SeqLess(_, _)
SeqLess(s, t) ==
    IF Len(t) = 0 THEN FALSE
    ELSE IF Len(s) = 0 THEN TRUE
    ELSE IF s[1] # t[1] THEN CharRank(s[1]) < CharRank(t[1])
    ELSE SeqLess(Tail(s), Tail(t))

----------------------------------------------------------------------------
(* Paths *)

Path(dir, name) == [dir |-> dir, name |-> name]

file_name(path) == path.name

display(path) == path.dir \o <<"/">> \o path.name

is_dir(path) == path.name \in dirs

LastDot(name) ==
    LET D == {i \in 1..Len(name) : name[i] = "."}
    IN IF D = {} THEN 0 ELSE CHOOSE i \in D : \A j \in D : j <= i

(* Path::extension: None without an embedded '.', None for a name whose only
   '.' is its first char, otherwise what follows the final '.' *)
has_extension(path) == LastDot(path.name) > 1

extension(path) == SubSeq(path.name, LastDot(path.name) + 1, Len(path.name))

(* PathBuf's Ord, by components: the directory, then the file name *)
Path_cmp_less(p, q) ==
    IF p.dir # q.dir THEN SeqLess(p.dir, q.dir) ELSE SeqLess(p.name, q.name)

----------------------------------------------------------------------------
(* Attribute resolution *)

Attr(icon, color) == [icon |-> icon, color |-> color]

get_file_attr(conf, suffix) ==
    IF suffix \in DOMAIN conf.files
    THEN Attr(conf.files[suffix], "RecognizedFile")
    ELSE Attr(conf.files[FILE], "UnrecognizedFile")

RECURSIVE get_file_attr_chase(_, _, _)
get_file_attr_chase(conf, suffix, fuel) ==
    IF fuel > 0 /\ suffix \in DOMAIN conf.file_aliases
    THEN get_file_attr_chase(conf, conf.file_aliases[suffix], fuel - 1)
    ELSE get_file_attr(conf, suffix)

get_file_attr_alias_transitive(conf, suffix) ==
    get_file_attr_chase(conf, suffix, Cardinality(DOMAIN conf.file_aliases))

get_file_attr_alias(conf, suffix) ==
    IF suffix \in DOMAIN conf.file_aliases
    THEN get_file_attr(conf, conf.file_aliases[suffix])
    ELSE get_file_attr(conf, suffix)

get_folder_attr(conf, name) ==
    IF name \in DOMAIN conf.folders
    THEN Attr(conf.folders[name], "Dir")
    ELSE Attr(conf.folders[FOLDER], "Dir")

get_folder_attr_alias(conf, name) ==
    IF name \in DOMAIN conf.folder_aliases
    THEN get_folder_attr(conf, conf.folder_aliases[name])
    ELSE get_folder_attr(conf, name)

(* String::remove(0): the first char goes, whatever it is *)
filename_without_leading_dot(path) == Tail(file_name(path))

(* get_attr's local `extension`: path.extension().unwrap_or(default) *)
lookup_key(path) ==
    IF has_extension(path) THEN extension(path)
    ELSE filename_without_leading_dot(path)

get_attr(conf, path) ==
    IF is_dir(path) THEN get_folder_attr_alias(conf, file_name(path))
    ELSE get_file_attr_alias(conf, lookup_key(path))

color_for(conf, color) ==
    IF color \in DOMAIN conf.colors THEN conf.colors[color] ELSE "Grey"

----------------------------------------------------------------------------
(* Entries and their printers *)

Entry(path, a) == [path |-> path, attr |-> a]

Entry_cmp_less(a, b) == Path_cmp_less(a.path, b.path)

short_name(l) == file_name(l.path)

(* "{name:<width$}": left-justified, padded with spaces to width chars *)
PadLeftJustified(name, width) ==
    name \o Spaces(IF width > Len(name) THEN width - Len(name) ELSE 0)

LongFormat_format_full_width(conf, ep_config, entry) ==
    <<entry.attr.icon, " ", color_for(conf, entry.attr.color)>>
        \o PadLeftJustified(display(entry.path), ep_config.width)
        \o <<"Reset">>

LongFormat_format(conf, ep_config, entry) ==
    <<entry.attr.icon, " ", color_for(conf, entry.attr.color)>>
        \o PadLeftJustified(display(entry.path), ep_config.width - 2)
        \o <<"Reset">>

LongFormat_predict(entry) == strlen(display(entry.path)) + 2

ShortFormat_format(conf, ep_config, entry) ==
    <<entry.attr.icon, color_for(conf, entry.attr.color)>>
        \o PadLeftJustified(short_name(entry), ep_config.width - 2)
        \o <<"Reset">>

ShortFormat_predict(entry) == strlen(short_name(entry)) + 3

printer_format(conf, ep_config, entry) ==
    IF conf.printer = "long" THEN LongFormat_format(conf, ep_config, entry)
    ELSE ShortFormat_format(conf, ep_config, entry)

printer_predict(conf, entry) ==
    IF conf.printer = "long" THEN LongFormat_predict(entry)
    ELSE ShortFormat_predict(entry)

----------------------------------------------------------------------------
(* Rows *)

(* The loop of as_rows from index i (0-based) on: a row is pushed when it is
   full; what is in `row` when the loop ends is not pushed *)
RECURSIVE as_rows_loop(_, _, _, _, _)
as_rows_loop(names, cap, i, row, rows) ==
    IF i >= Len(names) THEN rows
    ELSE LET pushed == Append(row, names[i + 1])
         IN IF i % cap = cap - 1
            THEN as_rows_loop(names, cap, i + 1, <<>>, Append(rows, pushed))
            ELSE as_rows_loop(names, cap, i + 1, pushed, rows)

(* names.len() / row_cap panics when row_cap is 0 *)
as_rows(names, cap) ==
    IF cap = 0 THEN Panicked("divide_by_zero")
    ELSE Ok(as_rows_loop(names, cap, 0, <<>>, <<>>))

(* col_widths of is_valid and format_as_rows: vec![0; rows[0].len()], then the
   maximum per column *)
col_widths_of(rows) ==
    [i \in 1..Len(rows[1]) |->
        LET C == {rows[r][i] : r \in {q \in 1..Len(rows) : i <= Len(rows[q])}}
        IN CHOOSE m \in C \cup {0} : \A x \in C \cup {0} : x <= m]

is_valid(out, max_width) ==
    IF Len(out) = 0 THEN Panicked("index_out_of_bounds")
    ELSE IF \E r \in 1..Len(out) : Len(out[r]) > Len(out[1])
    THEN Panicked("index_out_of_bounds")
    ELSE Ok(SumSeq(col_widths_of(out)) < max_width)

predictions(conf, names) == [i \in 1..Len(names) |-> printer_predict(conf, names[i])]

is_valid_as_rows(conf, names, cap) ==
    LET rows == as_rows(predictions(conf, names), cap)
    IN IF rows.panic # "none" THEN rows ELSE is_valid(rows.val, conf.max_width)

format_as_rows(conf, names, cap) ==
    LET rows == as_rows(names, cap)
    IN IF rows.panic # "none" THEN rows
       ELSE IF Len(rows.val) = 0 THEN Panicked("index_out_of_bounds")
       ELSE LET widths == [r \in 1..Len(rows.val) |-> predictions(conf, rows.val[r])]
                col_widths == col_widths_of(widths)
                cells == [r \in 1..Len(rows.val) |->
                            [i \in 1..Len(rows.val[r]) |->
                                printer_format(conf, [width |-> col_widths[i]],
                                               rows.val[r][i])]]
            IN as_rows(Flatten(cells), cap)

max_width(conf, names) ==
    LET P == Range(predictions(conf, names))
    IN CHOOSE m \in P \cup {0} : \A x \in P \cup {0} : x <= m

----------------------------------------------------------------------------
(* Inputs *)

RealColors == {"Yellow", "Green", "Blue", "Red", "Cyan", "Magenta", "Grey",
               "White", "Black"}

Escapes == RealColors \cup {"Reset"}

(* A colors table without an entry for UnrecognizedFile *)
Colors == [c \in {"RecognizedFile", "Dir"} |->
              IF c = "Dir" THEN "Blue" ELSE "Yellow"]

EmptyTable == [k \in {} |-> <<>>]

(* The names a listed directory can hold, and which of them are directories *)
NamePool == {<<"a">>, <<"b">>, <<"a", "^">>, <<".", "b">>, <<"a", ".", "t">>,
             <<"b", "b", "b", "b">>, <<"a", "b", ".", "t", "a">>}

DirNames == {<<"b">>, <<"b", "b", "b", "b">>}

Directories == {<<"d">>, <<"d", "d", "d">>}

LayoutFiles == [k \in {FILE, <<"t">>} |-> IF k = FILE THEN "icon_file" ELSE "icon_t"]

LayoutFolders == [k \in {FOLDER} |-> "icon_folder"]

LayoutConfig(w, p) ==
    [files |-> LayoutFiles, file_aliases |-> EmptyTable,
     folders |-> LayoutFolders, folder_aliases |-> EmptyTable,
     colors |-> Colors, max_width |-> w, printer |-> p]

NoPath == Path(<<>>, <<>>)
NoAttr == Attr("", "")

----------------------------------------------------------------------------
(* run: list a directory *)

Init ==
    /\ \E w \in 1..MaxTermWidth, p \in {"short", "long"} : config = LayoutConfig(w, p)
    /\ formatter \in {"planning", "naive"}
    /\ directory \in Directories
    /\ dirs = DirNames
    /\ arrival \in InjSeqs(NamePool, MaxEntries)
    /\ pc = "run"
    /\ ls = <<>>
    /\ min_rows = 0
    /\ max_rows = 0
    /\ row_cap = 0
    /\ chosen = -1
    /\ output = <<>>
    /\ panic = "none"
    /\ probe = NoPath
    /\ attr = NoAttr

(* run, up to the call of the formatter: ls is collected in arrival order *)
ReadDir ==
    /\ pc = "run"
    /\ ls' = [i \in 1..Len(arrival) |->
                LET path == Path(directory, arrival[i])
                IN Entry(path, get_attr(config, path))]
    /\ pc' = "format"
    /\ UNCHANGED <<config, formatter, directory, dirs, arrival, min_rows, max_rows,
                   row_cap, chosen, output, panic, probe, attr>>

(* A call format_as_rows(config, ls, cap) whose result format returns *)
Return_format_as_rows(cap) ==
    LET res == format_as_rows(config, ls, cap)
    IN /\ chosen' = cap
       /\ panic' = res.panic
       /\ output' = res.val
       /\ pc' = IF res.panic = "none" THEN "print" ELSE "panic"

(* PlanningFormatter::format, up to the loop *)
PlanningFormatter_format ==
    /\ pc = "format"
    /\ formatter = "planning"
    /\ LET width == max_width(config, ls)
       IN /\ min_rows' = config.max_width \div (width + 1)
          /\ max_rows' = config.max_width \div MIN_FORMAT_ENTRY_LENGTH
          /\ row_cap' = config.max_width \div MIN_FORMAT_ENTRY_LENGTH
    /\ pc' = "loop"
    /\ UNCHANGED <<config, formatter, directory, dirs, arrival, ls, chosen, output,
                   panic, probe, attr>>

(* One iteration of `for row_cap in range_step(max_rows, min_rows, -1)`:
   range_step yields start, start - 1, ... while the value is above stop *)
PlanningFormatter_candidate ==
    /\ pc = "loop"
    /\ row_cap > min_rows
    /\ LET valid == is_valid_as_rows(config, ls, row_cap)
       IN IF valid.panic # "none"
          THEN /\ panic' = valid.panic
               /\ pc' = "panic"
               /\ UNCHANGED <<row_cap, chosen, output>>
          ELSE IF valid.val
          THEN /\ Return_format_as_rows(row_cap)
               /\ UNCHANGED row_cap
          ELSE /\ row_cap' = row_cap - 1
               /\ UNCHANGED <<pc, chosen, output, panic>>
    /\ UNCHANGED <<config, formatter, directory, dirs, arrival, ls, min_rows,
                   max_rows, probe, attr>>

(* The loop is exhausted: format_as_rows(config, &names, min_rows) *)
PlanningFormatter_fallback ==
    /\ pc = "loop"
    /\ row_cap <= min_rows
    /\ Return_format_as_rows(min_rows)
    /\ UNCHANGED <<config, formatter, directory, dirs, arrival, ls, min_rows,
                   max_rows, row_cap, probe, attr>>

NaiveFormatter_format ==
    /\ pc = "format"
    /\ formatter = "naive"
    /\ LET width == max_width(config, ls) + 2
           rows == config.max_width \div width
       IN Return_format_as_rows(rows)
    /\ UNCHANGED <<config, formatter, directory, dirs, arrival, ls, min_rows,
                   max_rows, row_cap, probe, attr>>

(* run's print loop: the rows go out as they are *)
PrintRows ==
    /\ pc = "print"
    /\ pc' = "done"
    /\ UNCHANGED <<config, formatter, directory, dirs, arrival, ls, min_rows,
                   max_rows, row_cap, chosen, output, panic, probe, attr>>

Next ==
    \/ ReadDir
    \/ PlanningFormatter_format
    \/ PlanningFormatter_candidate
    \/ PlanningFormatter_fallback
    \/ NaiveFormatter_format
    \/ PrintRows

Spec == Init /\ [][Next]_vars

----------------------------------------------------------------------------
(* get_attr on one path, under any configuration *)

Glyphs == {"g1", "g2"}

KeyPool == {<<"t">>, <<"b">>, <<"j">>}

(* Tables over some of the keys; the files table always holds "file" *)
FileTables == UNION {[S \cup {FILE} -> Glyphs] : S \in SUBSET KeyPool}

AliasTables == UNION {[S -> KeyPool] : S \in SUBSET KeyPool}

FolderTables ==
    {<<[k \in {FOLDER} |-> "g1"], EmptyTable>>,
     <<[k \in {FOLDER, <<"t">>} |-> IF k = FOLDER THEN "g1" ELSE "g2"],
       [k \in {<<"a", "b">>} |-> <<"t">>]>>}

ProbeNames == {<<"a", ".", "t">>, <<".", "b">>, <<"a", "b">>, <<"t">>,
               <<"a", ".">>, <<".", "a", ".", "j">>}

InitAttr ==
    /\ \E f \in FileTables, a \in AliasTables, d \in FolderTables :
          config = [files |-> f, file_aliases |-> a, folders |-> d[1],
                    folder_aliases |-> d[2], colors |-> Colors,
                    max_width |-> 0, printer |-> "short"]
    /\ formatter = "planning"
    /\ directory \in {<<"d">>}
    /\ probe \in {Path(directory, n) : n \in ProbeNames}
    /\ dirs \in {{}, {probe.name}}
    /\ arrival = <<>>
    /\ pc = "get_attr"
    /\ ls = <<>>
    /\ min_rows = 0
    /\ max_rows = 0
    /\ row_cap = 0
    /\ chosen = -1
    /\ output = <<>>
    /\ panic = "none"
    /\ attr = NoAttr

GetAttr ==
    /\ pc = "get_attr"
    /\ attr' = get_attr(config, probe)
    /\ pc' = "attr_done"
    /\ UNCHANGED <<config, formatter, directory, dirs, arrival, ls, min_rows,
                   max_rows, row_cap, chosen, output, panic, probe>>

NextAttr == GetAttr

SpecAttr == InitAttr /\ [][NextAttr]_vars

----------------------------------------------------------------------------
(* What the properties below speak of *)

Finished == pc = "done"

Planned == formatter = "planning"

TerminalWidth == config.max_width

Cells == Flatten(output)

(* The text of a cell: what stands between its colour escape and the reset,
   without the padding (no name of the model holds a space) *)
CellText(cell) ==
    LET first == (CHOOSE i \in 1..Len(cell) : cell[i] \in RealColors) + 1
        body == SubSeq(cell, first, Len(cell) - 1)
    IN SelectSeq(body, LAMBDA t : t # " ")

(* The columns a cell takes on screen: its graphemes, colour escapes aside *)
VisibleWidth(cell) == strlen(SelectSeq(cell, LAMBDA t : t \notin Escapes))

RowWidth(row) == SumSeq([i \in 1..Len(row) |-> VisibleWidth(row[i])])

ShownName(entry) ==
    IF config.printer = "long" THEN display(entry.path) ELSE short_name(entry)

(* The widest predicted width in column i when ALL entries are laid out c to a
   row, the remainder row included *)
ColumnWidthAll(c, i) ==
    LET W == {printer_predict(config, ls[k]) : k \in {j \in 1..Len(ls) : (j - 1) % c = i - 1}}
    IN CHOOSE m \in W \cup {0} : \A x \in W \cup {0} : x <= m

FitsAll(c) ==
    /\ c >= 1
    /\ SumSeq([i \in 1..c |-> ColumnWidthAll(c, i)]) < TerminalWidth

WidestEntry == max_width(config, ls)

----------------------------------------------------------------------------
(* C1: the rendered grid holds every entry exactly once, in input order read
   row by row; every row has chosen cells, except the last, which holds the
   remaining Len(ls) % chosen entries when that is not 0. *)
GridHoldsEveryEntry ==
    Finished =>
        /\ Len(Cells) = Len(ls)
        /\ \A i \in 1..Len(Cells) : i <= Len(ls) => CellText(Cells[i]) = ShownName(ls[i])
        /\ \A r \in 1..Len(output) :
              Len(output[r]) = IF r < Len(output) \/ Len(ls) % chosen = 0
                               THEN chosen ELSE Len(ls) % chosen

(* C2: for a non-empty listing and a terminal at least as wide as the widest
   entry, the capacity the search planner chose lays the entries out in columns
   whose widths sum to less than the terminal width, or no capacity of
   min_rows..max_rows does and the capacity chosen is min_rows. *)
PlannerFeasibility ==
    (Finished /\ Planned /\ Len(ls) > 0 /\ TerminalWidth >= WidestEntry) =>
        \/ FitsAll(chosen)
        \/ /\ \A c \in min_rows..max_rows : ~FitsAll(c)
           /\ chosen = min_rows

(* C3: for a non-empty listing and a terminal of at least MIN_FORMAT_ENTRY_LENGTH
   columns the search planner never aborts, and the capacity it hands to the
   renderer is at least 1. *)
PlannerTermination ==
    (Planned /\ Len(arrival) > 0 /\ TerminalWidth >= MIN_FORMAT_ENTRY_LENGTH) =>
        /\ panic = "none"
        /\ chosen # -1 => chosen >= 1

(* C4: no row of a produced grid is wider on screen than the terminal, except a
   row of the single-column fallback holding an entry that is itself wider than
   the terminal. *)
RowsFitTerminal ==
    Finished =>
        \A r \in 1..Len(output) :
            \/ RowWidth(output[r]) <= TerminalWidth
            \/ /\ chosen <= 1
               /\ Len(output[r]) = 1
               /\ WidestEntry > TerminalWidth

(* C4's case: a grid of several columns was produced, its first row filling the
   terminal up to the last column but one *)
GridOfSeveralColumns ==
    /\ Finished
    /\ Len(output) >= 1
    /\ Len(output[1]) >= 2
    /\ RowWidth(output[1]) + 1 = TerminalWidth

(* C5: with no entry, either formatter ends without a panic, with an empty grid. *)
EmptyListingGivesEmptyGrid ==
    (Len(arrival) = 0) =>
        /\ panic = "none"
        /\ Finished => output = <<>>

(* C6: when an entry's predicted width is at least the terminal width, the
   search planner does not fail: it lays out one entry to a row, and every
   entry is rendered, whole. *)
DegenerateWidthFallsBack ==
    (Planned /\ pc \notin {"run", "format"} /\ Len(ls) > 0
        /\ WidestEntry >= TerminalWidth) =>
        /\ panic = "none"
        /\ Finished =>
              /\ chosen = 1
              /\ Len(Cells) = Len(ls)
              /\ \A i \in 1..Len(Cells) : i <= Len(ls) =>
                    CellText(Cells[i]) = ShownName(ls[i])

(* C7: read row by row, the cells of the grid are in ascending path order,
   whatever the arrival order was. *)
GridInPathOrder ==
    Finished =>
        \A i, j \in 1..Len(Cells) :
            i < j => SeqLess(CellText(Cells[i]), CellText(Cells[j]))

(* The attribute a direct lookup of key t in the file-icon table gives *)
DirectFileLookup(t) ==
    IF t \in DOMAIN config.files
    THEN [icon |-> config.files[t], color |-> "RecognizedFile"]
    ELSE [icon |-> config.files[FILE], color |-> "UnrecognizedFile"]

(* C8: a file whose lookup key k is an alias key gets the attribute of a direct
   file-icon lookup of file_aliases[k]; the alias of file_aliases[k] plays no part. *)
AliasFollowsOneHop ==
    (pc = "attr_done" /\ ~is_dir(probe)
        /\ lookup_key(probe) \in DOMAIN config.file_aliases) =>
        attr = DirectFileLookup(config.file_aliases[lookup_key(probe)])

(* C8's case: the alias target is itself an alias key, and one more hop would
   have reached another attribute *)
AliasOfAliasResolved ==
    /\ pc = "attr_done"
    /\ ~is_dir(probe)
    /\ lookup_key(probe) \in DOMAIN config.file_aliases
    /\ LET t == config.file_aliases[lookup_key(probe)]
       IN /\ t \in DOMAIN config.file_aliases
          /\ t # lookup_key(probe)
          /\ DirectFileLookup(config.file_aliases[t]) # attr

(* C9: the lookup key of a file is its extension when it has one; otherwise its
   name without its leading '.', and no other char of the name is removed. *)
LookupKeyDerivation ==
    (pc = "attr_done" /\ ~is_dir(probe)) =>
        lookup_key(probe) =
            IF has_extension(probe) THEN extension(probe)
            ELSE IF probe.name[1] = "." THEN Tail(probe.name)
            ELSE probe.name

(* C10: the search planner returns the largest capacity of min_rows..max_rows
   that fits (column widths over all entries summing to less than the terminal
   width), whenever one does. *)
PlannerMaximality ==
    (Finished /\ Planned /\ Len(ls) > 0) =>
        LET V == {c \in min_rows..max_rows : FitsAll(c)}
        IN V # {} => /\ chosen \in V
                     /\ \A c \in V : c <= chosen

====
